---- MODULE Spec2Model ----
(***************************************************************************)
(* Typestate-encoded task lifecycle of src/bin/06_structs.rs:              *)
(* Task<S> with phase markers Ready, Running, Paused; Task<Ready>::new,    *)
(* Task<Ready>::start(self) and Task<Running>::pause(self).                *)
(*                                                                         *)
(* A binding (`let task = ...`) is a handle.  handles[h] holds the value   *)
(* of binding h (name, and the phase marker S of its static type           *)
(* Task<S>), its ownership status as the borrow checker sees it (live,     *)
(* moved, dropped), the logical task it belongs to and the binding it was  *)
(* produced from (0 for a binding produced by new).                        *)
(***************************************************************************)
EXTENDS Integers, Sequences, FiniteSets, TLC

VARIABLES handles, created, log, panicked, user, ret, calls,
          counter, iter, flow, rd

vars == <<handles, created, log>>

\* With the flag of a panic that ended the process.
iovars == <<handles, created, log, panicked>>

\* The User of main, the value its last method call returned, the methods
\* called on it so far.
uvars == <<user, ret, calls>>

\* No User exists while the tasks run (test_unit_struct comes first in main).
NoUser == [own |-> "none"]

NoRet == [kind |-> "none"]

\* The Counter of 14_trait.rs and the while-let loop driving it; the loops
\* of 04_control_flow.rs; a call of read_number_from_file.
pvars == <<counter, iter, flow, rd>>

\* None of these programs runs.
ProgIdle ==
    /\ counter = [own |-> "none"]
    /\ iter = [pc |-> "none"]
    /\ flow = [pc |-> "none"]
    /\ rd = [pc |-> "none"]

\* Number of Task::new calls explored.
MaxTasks == 2

\* Number of inspections (println!("{:?}", task)) explored, and number of
\* Task::new calls explored together with inspections.
MaxInspects == 3

MaxInspectTasks == 1

\* Names handed to Task::new ("Backup" is the one of test_unit_struct).
Names == {"Backup", "Sync"}

\* The phase markers: struct Ready; struct Running; struct Paused;
Phases == {"Ready", "Running", "Paused"}

\* The phase graph given by the impl blocks: start : Ready -> Running,
\* pause : Running -> Paused.
Edges == {<<"Ready", "Running">>, <<"Running", "Paused">>}

----------------------------------------------------------------------------
(* The functions of impl Task<Ready> and impl Task<Running>, as values.    *)

Task_new_Running(name) == [name |-> name, state |-> "Running"]

\* fn new(name: &str) -> Self  (Self = Task<Ready>)
Task_new(name) == [name |-> name, state |-> "Ready"]

start_SamePhase(self) == [name |-> self.name, state |-> self.state]

\* fn start(self) -> Task<Running>: the value returned.
start(self) == [name |-> self.name, state |-> "Running"]

pause_NameLost(self) == [name |-> "", state |-> "Paused"]

\* fn pause(self) -> Task<Paused>: the value returned.
pause(self) == [name |-> self.name, state |-> "Paused"]

\* println!("task: {:?}", task): the derived Debug of Task<S> prints the
\* name quoted and the marker type of the PhantomData.
debug_line(self) ==
    "task: Task { name: \"" \o self.name \o "\", state: PhantomData<"
        \o self.state \o "> }"

\* The lines an inspection can print.
InspectLines == {debug_line([name |-> n, state |-> p]) : n \in Names, p \in Phases}

start_line_Pausing(self) == "Pausing task: " \o self.name

\* println!("Starting task: {}", self.name)
start_line(self) == "Starting task: " \o self.name

\* println!("Pausing task: {}", self.name)
pause_line(self) == "Pausing task: " \o self.name

HasStart_NotRunning(b) == b.state # "Running"

HasStart_OnPaused(b) == b.state = "Paused"

\* start is a method of impl Task<Ready> only.
HasStart(b) == b.state = "Ready"

HasPause_Any(b) == b.state \in Phases

\* pause is a method of impl Task<Running> only.
HasPause(b) == b.state = "Running"

Usable_Always(b) == b.own \in {"live", "moved"}

Usable_OnlyBackup(b) == b.own = "live" /\ b.name = "Backup"

\* A binding can be used only while it holds its value: Task<S> is neither
\* Copy nor Clone, so a binding passed by value is moved from.
Usable(b) == b.own = "live"

Move_Copy(hs, h) == hs

Borrow_ByValue(hs, h) == [hs EXCEPT ![h].own = "moved"]

\* Formatting with {:?} takes the binding by reference (&task): the binding
\* keeps its value.
Borrow(hs, h) == hs

Move_SameName(hs, h) ==
    [i \in DOMAIN hs |->
        IF hs[i].name = hs[h].name THEN [hs[i] EXCEPT !.own = "moved"] ELSE hs[i]]

\* Passing binding h as `self` by value moves the value out of it.
Move(hs, h) == [hs EXCEPT ![h].own = "moved"]

Runtime_WithTag(b) == [name |-> b.name, state |-> b.state]

\* The runtime data of a Task<S>: the String name; state is a PhantomData<S>,
\* which is zero-sized.
Runtime(b) == [name |-> b.name]

\* A binding of value v for logical task t, produced from binding f.
Bind(v, t, f) ==
    [name |-> v.name, state |-> v.state, own |-> "live", task |-> t, from |-> f]

\* The shape of the state: the bindings of type Task<S> (name: String, and
\* the marker S held by PhantomData<S>), the names passed to new, stdout.
TypeOK ==
    /\ created \in Seq(Names)
    /\ \A h \in DOMAIN handles :
           /\ handles[h].name \in Names
           /\ handles[h].state \in Phases
           /\ handles[h].own \in {"live", "moved", "dropped"}
           /\ handles[h].task \in DOMAIN created
           /\ handles[h].from \in 0 .. (h - 1)
    /\ \A i \in DOMAIN log :
           \/ \E n \in Names :
                  log[i] \in {"Starting task: " \o n, "Pausing task: " \o n}
           \/ log[i] \in InspectLines
    /\ panicked \in BOOLEAN

----------------------------------------------------------------------------
Init ==
    /\ handles = <<>>
    /\ created = <<>>
    /\ log = <<>>
    /\ panicked = FALSE
    /\ user = NoUser
    /\ ret = NoRet
    /\ calls = <<>>
    /\ ProgIdle

\* let task = Task::new(n);
New(n) ==
    /\ Len(created) < MaxTasks
    /\ created' = Append(created, n)
    /\ handles' = Append(handles, Bind(Task_new(n), Len(created) + 1, 0))
    /\ UNCHANGED log

\* let task = task.start();
Start(h) ==
    /\ h \in DOMAIN handles
    /\ Usable(handles[h])
    /\ HasStart(handles[h])
    /\ log' = Append(log, start_line(handles[h]))
    /\ handles' = Append(Move(handles, h),
                         Bind(start(handles[h]), handles[h].task, h))
    /\ UNCHANGED created

\* let task = task.pause();
Pause(h) ==
    /\ h \in DOMAIN handles
    /\ Usable(handles[h])
    /\ HasPause(handles[h])
    /\ log' = Append(log, pause_line(handles[h]))
    /\ handles' = Append(Move(handles, h),
                         Bind(pause(handles[h]), handles[h].task, h))
    /\ UNCHANGED created

\* End of the scope of a binding that still holds its value: the value is
\* dropped.
Drop(h) ==
    /\ h \in DOMAIN handles
    /\ Usable(handles[h])
    /\ handles' = [handles EXCEPT ![h].own = "dropped"]
    /\ UNCHANGED <<created, log>>

\* What a call on a task leaves alone.
Rest == UNCHANGED <<panicked, user, ret, calls, pvars>>

Next ==
    \/ \E n \in Names : New(n) /\ Rest
    \/ \E h \in DOMAIN handles : Start(h) /\ Rest
    \/ \E h \in DOMAIN handles : Pause(h) /\ Rest
    \/ \E h \in DOMAIN handles : Drop(h) /\ Rest

\* The program while every println! can write to stdout.
Spec == Init /\ [][Next]_vars

\* println!("task: {:?}", task);
Inspect(h) ==
    /\ h \in DOMAIN handles
    /\ Usable(handles[h])
    /\ Cardinality({i \in DOMAIN log : log[i] \in InspectLines}) < MaxInspects
    /\ log' = Append(log, debug_line(handles[h]))
    /\ handles' = Borrow(handles, h)
    /\ UNCHANGED created

NextInspect ==
    \/ \E n \in Names : Len(created) < MaxInspectTasks /\ New(n) /\ Rest
    \/ \E h \in DOMAIN handles : Start(h) /\ Rest
    \/ \E h \in DOMAIN handles : Pause(h) /\ Rest
    \/ \E h \in DOMAIN handles : Drop(h) /\ Rest
    \/ \E h \in DOMAIN handles : Inspect(h) /\ Rest

\* The callers of new, start, pause that also inspect their tasks.
SpecInspect == Init /\ [][NextInspect]_vars

Unwind_Leak(hs) == hs

\* A panic unwinds the stack: every binding that still holds its value is
\* dropped, `self` of the running transition included.
Unwind(hs) ==
    [i \in DOMAIN hs |-> IF hs[i].own = "live" THEN [hs[i] EXCEPT !.own = "dropped"]
                                              ELSE hs[i]]

\* task.start() when the println! cannot write to stdout: println! panics
\* before the Task<Running> is built; nothing catches the panic.
StartPanic(h) ==
    /\ h \in DOMAIN handles
    /\ Usable(handles[h])
    /\ HasStart(handles[h])
    /\ panicked' = TRUE
    /\ handles' = Unwind(handles)
    /\ UNCHANGED <<created, log, user, ret, calls, pvars>>

\* task.pause() when the println! cannot write to stdout.
PausePanic(h) ==
    /\ h \in DOMAIN handles
    /\ Usable(handles[h])
    /\ HasPause(handles[h])
    /\ panicked' = TRUE
    /\ handles' = Unwind(handles)
    /\ UNCHANGED <<created, log, user, ret, calls, pvars>>

\* A process that panicked runs no further.
NextIO ==
    \/ \E n \in Names : ~ panicked /\ New(n) /\ Rest
    \/ \E h \in DOMAIN handles : ~ panicked /\ Start(h) /\ Rest
    \/ \E h \in DOMAIN handles : ~ panicked /\ Pause(h) /\ Rest
    \/ \E h \in DOMAIN handles : ~ panicked /\ Drop(h) /\ Rest
    \/ \E h \in DOMAIN handles : ~ panicked /\ StartPanic(h)
    \/ \E h \in DOMAIN handles : ~ panicked /\ PausePanic(h)

\* The program on a stdout whose writes may fail (a pipe whose reader is
\* gone, a full device).
SpecIO == Init /\ [][NextIO]_iovars

----------------------------------------------------------------------------
(* struct User and impl User of src/bin/06_structs.rs.  A String that the  *)
(* code splits is a sequence of characters.                                *)

\* Number of method calls on the User explored.
MaxCalls == 4

\* email arguments: with one '@', without, with two, starting with '@', empty.
Emails ==
    { <<"a", "@", "x">>, <<"a">>, <<"a", "@", "x", "@", "y">>, <<"@", "x">>, <<>> }

\* username arguments.
Usernames == {"someusername123", "alice"}

\* fn new(email: String, username: String) -> User
User_new(email, username) ==
    [email |-> email, username |-> username, active |-> TRUE, sign_in_count |-> 1]

\* fn promote(&mut self)
promote(self) == [self EXCEPT !.sign_in_count = @ + 1]

activate_Toggle(self) == [self EXCEPT !.active = ~ @]

\* fn activate(&mut self)
activate(self) == [self EXCEPT !.active = TRUE]

\* fn deactivate(&mut self)
deactivate(self) == [self EXCEPT !.active = FALSE]

\* fn is_active(&self) -> bool
is_active(self) == self.active

\* str::split(c): the pieces of s between the occurrences of c.
RECURSIVE Split(_, _)
Split(s, c) ==
    IF \A i \in DOMAIN s : s[i] # c
    THEN <<s>>
    ELSE LET i == CHOOSE j \in DOMAIN s :
                      s[j] = c /\ \A k \in 1 .. (j - 1) : s[k] # c
         IN  <<SubSeq(s, 1, i - 1)>> \o Split(SubSeq(s, i + 1, Len(s)), c)

\* fn email_domain(&self) -> Option<&str>: self.email.split('@').nth(1)
email_domain(self) ==
    LET parts == Split(self.email, "@")
    IN  IF Len(parts) >= 2 THEN [kind |-> "Some", val |-> parts[2]]
                           ELSE [kind |-> "None"]

\* fn into_username(self) -> String
into_username(self) == self.username

\* main can call a method on user1 only while user1 holds its value.
UserUsable(u) == u.own = "live"

TakeSelf_Keep(u) == u

\* A method taking `self` by value moves the User out of its binding.
TakeSelf(u) == [u EXCEPT !.own = "moved"]

\* The fields of the binding's User, and a User put into a binding.
Fields(u) ==
    [email |-> u.email, username |-> u.username, active |-> u.active,
     sign_in_count |-> u.sign_in_count]

Bound(v, own) ==
    [email |-> v.email, username |-> v.username, active |-> v.active,
     sign_in_count |-> v.sign_in_count, own |-> own]

\* let mut user1 = User::new(email, username);
UserInit ==
    /\ handles = <<>> /\ created = <<>> /\ log = <<>> /\ panicked = FALSE
    /\ \E e \in Emails, n \in Usernames : user = Bound(User_new(e, n), "live")
    /\ ret = NoRet
    /\ calls = <<>>
    /\ ProgIdle

CanCall == UserUsable(user) /\ Len(calls) < MaxCalls

\* user1.promote();
Promote ==
    /\ CanCall
    /\ user' = Bound(promote(Fields(user)), user.own)
    /\ ret' = [kind |-> "unit"]
    /\ calls' = Append(calls, "promote")

\* user1.activate();
Activate ==
    /\ CanCall
    /\ user' = Bound(activate(Fields(user)), user.own)
    /\ ret' = [kind |-> "unit"]
    /\ calls' = Append(calls, "activate")

\* user1.deactivate();
Deactivate ==
    /\ CanCall
    /\ user' = Bound(deactivate(Fields(user)), user.own)
    /\ ret' = [kind |-> "unit"]
    /\ calls' = Append(calls, "deactivate")

\* user1.is_active()
IsActive ==
    /\ CanCall
    /\ ret' = [kind |-> "bool", val |-> is_active(Fields(user))]
    /\ calls' = Append(calls, "is_active")
    /\ UNCHANGED user

\* user1.email_domain()
EmailDomain ==
    /\ CanCall
    /\ ret' = email_domain(Fields(user))
    /\ calls' = Append(calls, "email_domain")
    /\ UNCHANGED user

\* let username = user1.into_username();
IntoUsername ==
    /\ CanCall
    /\ ret' = [kind |-> "String", val |-> into_username(Fields(user))]
    /\ user' = TakeSelf(user)
    /\ calls' = Append(calls, "into_username")

UserNext ==
    \/ Promote /\ UNCHANGED <<iovars, pvars>>
    \/ Activate /\ UNCHANGED <<iovars, pvars>>
    \/ Deactivate /\ UNCHANGED <<iovars, pvars>>
    \/ IsActive /\ UNCHANGED <<iovars, pvars>>
    \/ EmailDomain /\ UNCHANGED <<iovars, pvars>>
    \/ IntoUsername /\ UNCHANGED <<iovars, pvars>>

SpecUser == UserInit /\ [][UserNext]_uvars

UserTypeOK ==
    /\ user.email \in Emails
    /\ user.username \in Usernames
    /\ user.active \in BOOLEAN
    /\ user.sign_in_count \in 1 .. (MaxCalls + 1)
    /\ user.own \in {"live", "moved"}
    /\ Len(calls) <= MaxCalls

----------------------------------------------------------------------------
(* Vocabulary of the properties.                                           *)

Tasks == DOMAIN created

\* The bindings of logical task t, in creation order.
HandlesOf(t) == {h \in DOMAIN handles : handles[h].task = t}

LiveOf(t) == {h \in HandlesOf(t) : handles[h].own = "live"}

\* Binding h has been passed by value to a transition.
Consumed(h) == \E k \in DOMAIN handles : handles[k].from = h

\* The phase markers of task t's bindings, in creation order.
PhasesOf(t) ==
    LET ids == SelectSeq([i \in DOMAIN handles |-> i],
                         LAMBDA i : handles[i].task = t)
    IN  [i \in DOMAIN ids |-> handles[ids[i]].state]

IsPrefix(s, t) == Len(s) <= Len(t) /\ \A i \in DOMAIN s : s[i] = t[i]

\* The step consumes binding h: its value is moved into a transition.
Transitions(h) ==
    /\ h \in DOMAIN handles
    /\ handles[h].own = "live"
    /\ Len(handles') = Len(handles) + 1
    /\ handles'[Len(handles')].from = h

----------------------------------------------------------------------------
\* A step that consumes a binding of phase P and produces one of phase Q
\* follows an edge P -> Q.
C1_StepLegal ==
    \A h \in DOMAIN handles :
        Transitions(h) =>
            <<handles[h].state, handles'[Len(handles')].state>> \in Edges

\* start is callable only on a Ready binding, pause only on a Running one.
C1_Availability ==
    \A h \in DOMAIN handles :
        /\ ENABLED Start(h) => handles[h].state = "Ready"
        /\ ENABLED Pause(h) => handles[h].state = "Running"

\* C1: a task moves from phase P to phase Q in one step only if P -> Q is an
\* edge of Ready -> Running -> Paused; start is available only on a Ready
\* binding and pause only on a Running one.
C1_NoIllegalTransition == [][C1_StepLegal]_vars /\ []C1_Availability

\* Both edges have been taken, and bindings of all three phases exist.
C1_Witness ==
    /\ \E h \in DOMAIN handles :
           handles[h].state = "Running" /\ handles[handles[h].from].state = "Ready"
    /\ \E h \in DOMAIN handles :
           handles[h].state = "Paused" /\ handles[handles[h].from].state = "Running"

\* A binding produced from no other binding is Ready, live, of a fresh task
\* and made by new.
C2_NewStep ==
    \A h \in DOMAIN handles' :
        (h \notin DOMAIN handles /\ handles'[h].from = 0) =>
            /\ handles'[h].state = "Ready"
            /\ handles'[h].own = "live"
            /\ handles'[h].task \notin Tasks
            /\ \E n \in Names : New(n)

\* A binding of a task that did not exist before is made by new, with the
\* name passed to it.
C2_NoOtherBirth ==
    \A h \in DOMAIN handles' :
        (h \notin DOMAIN handles /\ handles'[h].task \notin Tasks) =>
            /\ handles'[h].from = 0
            /\ \E n \in Names : New(n) /\ handles'[h].name = n

\* new has no precondition on the name (MaxTasks bounds the exploration).
C2_AlwaysSucceeds ==
    Len(created) < MaxTasks => \A n \in Names : ENABLED New(n)

\* C2: construction succeeds for any name, places the new task in Ready, and
\* is the only operation that brings a new task into existence.
C2_ConstructReady ==
    [][C2_NewStep /\ C2_NoOtherBirth]_vars /\ []C2_AlwaysSucceeds

\* Two tasks have been constructed, under different names, and neither has
\* been transitioned yet.
C2_Witness ==
    /\ Len(created) = 2
    /\ created[1] # created[2]
    /\ Len(handles) = 2
    /\ \A h \in DOMAIN handles : handles[h].state = "Ready"

\* C3: no operation can be applied through a binding that an earlier
\* transition consumed.
C3_ConsumedUnusable ==
    \A h \in DOMAIN handles :
        Consumed(h) =>
            /\ handles[h].own = "moved"
            /\ ~ ENABLED Start(h)
            /\ ~ ENABLED Pause(h)
            /\ ~ ENABLED Drop(h)

\* A Ready binding consumed by start and a Running binding consumed by pause.
C3_Witness ==
    /\ \E h \in DOMAIN handles : Consumed(h) /\ handles[h].state = "Ready"
    /\ \E h \in DOMAIN handles : Consumed(h) /\ handles[h].state = "Running"

\* C4: after any sequence of transitions the name of a task equals the name
\* it was constructed with.
C4_NamePreserved ==
    \A h \in DOMAIN handles : handles[h].name = created[handles[h].task]

\* Two tasks of different names, both taken through start and pause.
C4_Witness ==
    /\ Len(created) = 2
    /\ created[1] # created[2]
    /\ \A t \in Tasks : \E h \in HandlesOf(t) : handles[h].state = "Paused"

\* What a pause step leaves behind for its task.
C5_PauseStep ==
    \A h \in DOMAIN handles :
        (Transitions(h) /\ handles[h].state = "Running") =>
            LET t == handles[h].task
                k == Len(handles')
            IN  /\ {i \in DOMAIN handles' :
                       handles'[i].task = t /\ handles'[i].own = "live"} = {k}
                /\ handles'[k].state = "Paused"
                /\ handles'[k].name = created[t]
                /\ \A i \in HandlesOf(t) : handles'[i].own = "moved"
                /\ {handles'[i].state : i \in HandlesOf(t)} = {"Ready", "Running"}

\* C5: new(n), start, pause ends with exactly one usable binding, Paused and
\* named n; the Ready and Running bindings made on the way are unreachable.
C5_RoundTrip == [][C5_PauseStep]_vars

\* The round trip of test_unit_struct: "Backup" is Paused and live.
C5_Witness ==
    \E h \in DOMAIN handles :
        /\ handles[h].state = "Paused"
        /\ handles[h].own = "live"
        /\ handles[h].name = "Backup"
        /\ Cardinality(HandlesOf(handles[h].task)) = 3

\* C6: a logical task never has more than one usable binding, start is
\* applied at most once per task, and no operation makes a second binding.
C6_SingleHandle ==
    \A t \in Tasks :
        /\ Cardinality(LiveOf(t)) <= 1
        /\ Cardinality({h \in HandlesOf(t) : handles[h].state = "Running"}) <= 1
        /\ \A h \in HandlesOf(t) :
               Cardinality({k \in HandlesOf(t) : handles[k].from = h}) <= 1

\* A started task: its Ready binding is gone and its Running binding is the
\* only usable one.
C6_Witness ==
    \E t \in Tasks :
        /\ Cardinality(HandlesOf(t)) = 2
        /\ \E h \in LiveOf(t) : handles[h].state = "Running"

\* C7: the phases a task goes through form a prefix of Ready, Running,
\* Paused.
C7_PhasePrefix ==
    \A t \in Tasks :
        /\ Len(PhasesOf(t)) >= 1
        /\ IsPrefix(PhasesOf(t), <<"Ready", "Running", "Paused">>)

\* One task has gone through all three phases while another is still in its
\* first.
C7_Witness ==
    /\ \E t \in Tasks : PhasesOf(t) = <<"Ready", "Running", "Paused">>
    /\ \E t \in Tasks : PhasesOf(t) = <<"Ready">>

\* Neither transition is callable on a Paused binding.
C8_NoExit ==
    \A h \in DOMAIN handles :
        handles[h].state = "Paused" =>
            /\ ~ ENABLED Start(h)
            /\ ~ ENABLED Pause(h)

\* A Paused binding keeps phase and name, is never moved from, and its task
\* gets no further binding.
C8_Stays ==
    \A h \in DOMAIN handles :
        handles[h].state = "Paused" =>
            /\ handles'[h].state = "Paused"
            /\ handles'[h].name = handles[h].name
            /\ handles'[h].own # "moved"
            /\ \A k \in DOMAIN handles' :
                   handles'[k].task = handles[h].task => k \in DOMAIN handles

\* C8: Paused is terminal: no transition is enabled on a Paused task, which
\* stays Paused with the same name.
C8_PausedTerminal == [][C8_Stays]_vars /\ []C8_NoExit

\* A Paused task exists while another task can still move.
C8_Witness ==
    /\ \E h \in DOMAIN handles :
           handles[h].state = "Paused" /\ handles[h].own = "live"
    /\ \E h \in DOMAIN handles : ENABLED Start(h)

\* The phase marker of a binding is one of the three markers.
C9_OnePhase ==
    \A h \in DOMAIN handles : handles[h].state \in Phases

\* No step changes the marker of an existing binding; a transition ends the
\* old binding and makes a live one of another phase.
C9_Step ==
    /\ \A h \in DOMAIN handles :
           /\ h \in DOMAIN handles'
           /\ handles'[h].state = handles[h].state
    /\ \A h \in DOMAIN handles :
           Transitions(h) =>
               /\ handles'[h].own # "live"
               /\ handles'[Len(handles')].own = "live"
               /\ handles'[Len(handles')].state # handles[h].state

\* C9: every live binding carries exactly one phase; the phase of an existing
\* binding never changes in place: a transition removes the old binding and
\* produces a new one with a different phase.
C9_PhaseStatic == [][C9_Step]_vars /\ []C9_OnePhase

\* Live bindings of different phases exist side by side, each made by a
\* transition from a binding that is no longer live.
C9_Witness ==
    \E h, k \in DOMAIN handles :
        /\ handles[h].state = "Running" /\ handles[h].own = "live"
        /\ handles[k].state = "Paused" /\ handles[k].own = "live"
        /\ handles[handles[h].from].own = "moved"
        /\ handles[handles[k].from].own = "moved"

\* What a transition step leaves behind for its task.
C10_Step ==
    \A h \in DOMAIN handles :
        Transitions(h) =>
            LET t == handles[h].task
                k == Len(handles')
                live == {i \in DOMAIN handles' :
                            handles'[i].task = t /\ handles'[i].own = "live"}
            IN  /\ live = {k} \/ live = {}
                /\ live = {k} =>
                       /\ <<handles[h].state, handles'[k].state>> \in Edges
                       /\ handles'[k].name = handles[h].name
                       /\ handles'[k].task = t

\* A binding and the binding made from it are never both usable.
C10_NeverBoth ==
    \A h, k \in DOMAIN handles :
        handles[k].from = h => ~ (handles[h].own = "live" /\ handles[k].own = "live")

C11_Step ==
    \A h \in DOMAIN handles :
        Transitions(h) =>
            ~ (Usable(handles'[h]) /\ (HasStart(handles'[h]) \/ HasPause(handles'[h])))

\* Each edge of the graph is performed at most once per task.
C11_EdgeOnce ==
    \A t \in Tasks : \A p \in {"Running", "Paused"} :
        Cardinality({h \in HandlesOf(t) : handles[h].state = p}) <= 1

\* C11: of two attempts to transition the same logical task at most one takes
\* effect: the first consumes the only binding, so in every interleaving each
\* edge is performed at most once per task.
C11_OneWinner == [][C11_Step]_vars /\ []C11_EdgeOnce

\* Interleaved starts: two tasks are Running, each from a consumed Ready
\* binding, the second task having been created before the first started.
C11_Witness ==
    /\ Len(handles) = 4
    /\ handles[1].state = "Ready" /\ handles[2].state = "Ready"
    /\ handles[3].state = "Running" /\ handles[4].state = "Running"
    /\ handles[3].from = 2 /\ handles[4].from = 1

\* start on a live Ready binding and pause on a live Running binding can
\* always be taken and yield the live binding of the next phase.
C12_Succeeds ==
    \A h \in DOMAIN handles :
        /\ (handles[h].own = "live" /\ handles[h].state = "Ready") =>
               ENABLED (/\ Start(h)
                        /\ handles'[Len(handles')].state = "Running"
                        /\ handles'[Len(handles')].own = "live")
        /\ (handles[h].own = "live" /\ handles[h].state = "Running") =>
               ENABLED (/\ Pause(h)
                        /\ handles'[Len(handles')].state = "Paused"
                        /\ handles'[Len(handles')].own = "live")

\* Nothing but the two transition lines is ever reported, and a call on the
\* wrong phase is not an enabled action.
C12_NoErrorRecord ==
    /\ \A i \in DOMAIN log :
           \E n \in Names : log[i] \in {"Starting task: " \o n, "Pausing task: " \o n}
    /\ \A h \in DOMAIN handles :
           /\ handles[h].state # "Ready" => ~ ENABLED Start(h)
           /\ handles[h].state # "Running" => ~ ENABLED Pause(h)

C15_Enabled ==
    \A h \in DOMAIN handles :
        handles[h].own = "live" =>
            /\ handles[h].state = "Ready" => ENABLED Start(h)
            /\ handles[h].state = "Running" => ENABLED Pause(h)

\* A transition is over after its one step: the source is moved from and
\* the target is live, with no state in between.
C15_SingleStep ==
    \A h \in DOMAIN handles :
        Transitions(h) =>
            /\ handles'[h].own = "moved"
            /\ handles'[Len(handles')].own = "live"
            /\ Len(log') = Len(log) + 1

RuntimeView == [h \in DOMAIN handles |-> Runtime(handles[h])]

\* Bindings that differ only in phase have the same runtime data.
C16_PhaseErased ==
    \A h, k \in DOMAIN handles :
        handles[h].name = handles[k].name => Runtime(handles[h]) = Runtime(handles[k])

\* Every step is a step of the name-only model: new appends the name it was
\* given, start and pause append the runtime data of the binding they
\* consume unchanged, drop changes nothing.
C16_Step ==
    \/ \E n \in Names : New(n) /\ RuntimeView' = Append(RuntimeView, [name |-> n])
    \/ \E h \in DOMAIN handles :
           Transitions(h) /\ RuntimeView' = Append(RuntimeView, RuntimeView[h])
    \/ RuntimeView' = RuntimeView

\* C16: the phase has no runtime representation: the runtime data of a task
\* is its name alone, and start and pause are the identity on it.
C16_NameOnly == [][C16_Step]_vars /\ []C16_PhaseErased

\* Three bindings of one task, of three phases, with the same runtime data.
C16_Witness ==
    \E t \in Tasks :
        /\ {handles[h].state : h \in HandlesOf(t)} = Phases
        /\ Cardinality({Runtime(handles[h]) : h \in HandlesOf(t)}) = 1

Count(seq, x) == Cardinality({i \in DOMAIN seq : seq[i] = x})

\* A transition writes exactly its own line; no other step writes.
C17_Step ==
    /\ \A h \in DOMAIN handles :
           Transitions(h) =>
               log' = Append(log, (IF handles[h].state = "Ready"
                                   THEN "Starting task: "
                                   ELSE "Pausing task: ") \o handles[h].name)
    /\ (\A h \in DOMAIN handles : ~ Transitions(h)) => log' = log

\* There are as many Starting lines of a name as started tasks of that name
\* (a task has at most one Running binding), likewise for Pausing, and in
\* every prefix of the log the Pausing lines do not outnumber the Starting
\* lines.
C17_Lines ==
    \A n \in Names :
        /\ Count(log, "Starting task: " \o n) =
               Cardinality({h \in DOMAIN handles :
                               handles[h].state = "Running" /\ handles[h].name = n})
        /\ Count(log, "Pausing task: " \o n) =
               Cardinality({h \in DOMAIN handles :
                               handles[h].state = "Paused" /\ handles[h].name = n})
        /\ \A t \in Tasks :
               Cardinality({h \in HandlesOf(t) : handles[h].state = "Running"}) <= 1
        /\ \A i \in DOMAIN log :
               Count(SubSeq(log, 1, i), "Pausing task: " \o n)
                   <= Count(SubSeq(log, 1, i), "Starting task: " \o n)

\* C17: each transition emits exactly one line naming the task: start emits
\* "Starting task: <name>", pause "Pausing task: <name>"; a task has at most
\* one Starting and one Pausing line, and Pausing never precedes Starting.
C17_LogLines == [][C17_Step]_vars /\ []C17_Lines

\* The output of test_unit_struct.
C17_Witness == log = <<"Starting task: Backup", "Pausing task: Backup">>

\* A step touches the bindings of one task only, and never the name another
\* task was created with.
C18_Step ==
    \E t \in 1 .. (Len(created) + 1) :
        /\ \A h \in DOMAIN handles :
               handles[h].task # t => (h \in DOMAIN handles' /\ handles'[h] = handles[h])
        /\ \A h \in DOMAIN handles' :
               h \notin DOMAIN handles => handles'[h].task = t
        /\ \A u \in Tasks :
               u # t => (u \in DOMAIN created' /\ created'[u] = created[u])

\* C18: tasks are independent: new, start or pause applied to one task
\* leaves phase, name and liveness of every other task unchanged.
C18_Independent == [][C18_Step]_vars

\* Two tasks of the same name, one Paused and one still Ready and live.
C18_Witness ==
    /\ Len(created) = 2
    /\ created[1] = created[2]
    /\ \E h \in HandlesOf(1) : handles[h].state = "Paused"
    /\ \E h \in LiveOf(2) : handles[h].state = "Ready"

Inspections == Cardinality({i \in DOMAIN log : log[i] \in InspectLines})

\* A step that prints a Debug line prints the line of a live binding, name
\* and phase as they are, and changes no binding: phase, name and liveness
\* stay as they were, so the binding can be transitioned or inspected again.
C13_Step ==
    \A l \in InspectLines :
        log' = Append(log, l) =>
            /\ handles' = handles
            /\ created' = created
            /\ \E h \in DOMAIN handles :
                   /\ handles[h].own = "live"
                   /\ l = debug_line(handles[h])
                   /\ handles'[h].own = "live"

\* Inspection is callable on every live binding, whatever its phase
\* (MaxInspects bounds the exploration).
C13_Available ==
    \A h \in DOMAIN handles :
        (handles[h].own = "live" /\ Inspections < MaxInspects) => ENABLED Inspect(h)

\* C13: a read-only inspection of the task's name is available in every
\* phase; it does not consume the binding and leaves phase, name and
\* liveness unchanged.
C13_InspectReadOnly == [][C13_Step]_vars /\ []C13_Available

\* The task was inspected as Ready, as Running and as Paused, and its Paused
\* binding is still live.
C13_Witness ==
    /\ \A p \in Phases :
           \E i \in DOMAIN log : log[i] = debug_line([name |-> "Backup", state |-> p])
    /\ \E h \in DOMAIN handles : handles[h].state = "Paused" /\ handles[h].own = "live"

C14_Success(h) ==
    /\ Transitions(h)
    /\ panicked' = panicked
    /\ handles'[Len(handles')].own = "live"
    /\ <<handles[h].state, handles'[Len(handles')].state>> \in Edges
    /\ handles'[Len(handles')].name = handles[h].name
    /\ Len(log') = Len(log) + 1

\* A transition that failed: the process panicked, no binding was made and
\* none is usable any more.
C14_Abort ==
    /\ ~ panicked /\ panicked'
    /\ Len(handles') = Len(handles)
    /\ \A h \in DOMAIN handles' : handles'[h].own # "live"
    /\ \E h \in DOMAIN handles :
           handles[h].own = "live" /\ handles[h].state \in {"Ready", "Running"}

C14_Step ==
    \/ \E n \in Names : New(n) /\ Rest
    \/ \E h \in DOMAIN handles : Drop(h) /\ Rest
    \/ \E h \in DOMAIN handles : C14_Success(h)
    \/ C14_Abort

\* After the panic nothing is usable and nothing runs.
C14_Dead ==
    panicked => /\ \A h \in DOMAIN handles : handles[h].own # "live"
                /\ ~ ENABLED NextIO

RECURSIVE LastToggle(_)
LastToggle(cs) ==
    IF cs = <<>> THEN TRUE
    ELSE IF cs[Len(cs)] = "activate" THEN TRUE
    ELSE IF cs[Len(cs)] = "deactivate" THEN FALSE
    ELSE LastToggle(SubSeq(cs, 1, Len(cs) - 1))

\* active follows the last activate/deactivate call, sign_in_count is 1 plus
\* the number of promote calls, and activate and deactivate are idempotent.
C19_State ==
    /\ user.active = LastToggle(calls)
    /\ user.sign_in_count = 1 + Count(calls, "promote")
    /\ activate(activate(Fields(user))) = activate(Fields(user))
    /\ deactivate(deactivate(Fields(user))) = deactivate(Fields(user))

\* What each call changes and returns.
C19_Step ==
    LET c == calls'[Len(calls')]
    IN  /\ user'.username = user.username
        /\ user'.email = user.email
        /\ c \in {"activate", "deactivate"} =>
               /\ user'.sign_in_count = user.sign_in_count
               /\ user'.active = (c = "activate")
        /\ c = "promote" =>
               /\ user'.sign_in_count = user.sign_in_count + 1
               /\ user'.active = user.active
        /\ c = "is_active" =>
               /\ user' = user
               /\ ret' = [kind |-> "bool", val |-> LastToggle(calls)]

\* C19: is_active returns true exactly when the last activate/deactivate
\* call was activate or there was none; activate and deactivate are
\* idempotent and leave sign_in_count, username and email unchanged; promote
\* adds exactly 1 to sign_in_count (which starts at 1) and leaves the rest
\* unchanged; is_active changes nothing.
C19_UserFlags == [][C19_Step]_uvars /\ []C19_State

\* deactivate, promote, activate, then is_active returns true with a
\* sign_in_count of 2.
C19_Witness ==
    /\ calls = <<"deactivate", "promote", "activate", "is_active">>
    /\ ret = [kind |-> "bool", val |-> TRUE]
    /\ user.sign_in_count = 2

\* into_username returns the username and ends the binding; every other
\* method leaves it usable; the username never changes.
C20_Step ==
    LET c == calls'[Len(calls')]
    IN  /\ user'.username = user.username
        /\ c = "into_username" =>
               /\ ret' = [kind |-> "String", val |-> user.username]
               /\ user'.own = "moved"
        /\ c # "into_username" => user'.own = "live"

\* No operation can be applied to a consumed User.
C20_Gone ==
    user.own = "moved" =>
        /\ calls[Len(calls)] = "into_username"
        /\ ~ ENABLED UserNext

\* C20: into_username consumes the User and returns its username unchanged:
\* afterwards no operation can be applied to that user, whereas the
\* borrowing methods leave the user usable.
C20_IntoUsernameConsumes == [][C20_Step]_uvars /\ []C20_Gone

\* promote and email_domain leave user1 usable, then into_username moves it
\* out, with calls still to spare.
C20_Witness ==
    /\ calls = <<"promote", "email_domain", "into_username">>
    /\ user.own = "moved"
    /\ ret = [kind |-> "String", val |-> "someusername123"]

----------------------------------------------------------------------------
(* User::from_email of src/bin/06_structs.rs.                              *)

\* Length of the email arguments explored, over the characters of EmailChars.
MaxEmailLen == 4

EmailChars == {"a", "@", "x"}

AllEmails == UNION {[1 .. n -> EmailChars] : n \in 0 .. MaxEmailLen}

\* The fallback of unwrap_or("unknown").
Unknown == <<"u", "n", "k", "n", "o", "w", "n">>

split_next_Nth1(email) ==
    LET parts == Split(email, "@")
    IN  IF Len(parts) >= 2 THEN [kind |-> "Some", val |-> parts[2]]
                           ELSE [kind |-> "None"]

\* email.split('@').next(): the first piece, if there is one.
split_next(email) ==
    LET parts == Split(email, "@")
    IN  IF Len(parts) >= 1 THEN [kind |-> "Some", val |-> parts[1]]
                           ELSE [kind |-> "None"]

\* Option::unwrap_or
unwrap_or(o, default) == IF o.kind = "Some" THEN o.val ELSE default

\* fn from_email(email: &str) -> User
from_email(email) == User_new(email, unwrap_or(split_next(email), Unknown))

\* let user2 = User::from_email(e);
FromEmail(e) ==
    /\ user = NoUser
    /\ user' = Bound(from_email(e), "live")
    /\ UNCHANGED <<ret, calls>>

NextFromEmail ==
    \/ \E e \in AllEmails : FromEmail(e) /\ UNCHANGED <<iovars, pvars>>

SpecFromEmail == Init /\ [][NextFromEmail]_uvars

\* The index of the first '@' of e, or Len(e) + 1 when e has none.
FirstAt(e) ==
    IF \E i \in DOMAIN e : e[i] = "@"
    THEN CHOOSE i \in DOMAIN e : e[i] = "@" /\ \A j \in 1 .. (i - 1) : e[j] # "@"
    ELSE Len(e) + 1

\* What from_email(e) returns.
C21_Step ==
    \A e \in AllEmails :
        FromEmail(e) =>
            /\ user'.active = TRUE
            /\ user'.sign_in_count = 1
            /\ user'.email = e
            /\ user'.username = SubSeq(e, 1, FirstAt(e) - 1)
            /\ (\A i \in DOMAIN e : e[i] # "@") => user'.username = e
            /\ (e = <<>> \/ e[1] = "@") => user'.username = <<>>
            /\ user'.username # Unknown
            /\ split_next(e).kind = "Some"

\* C21: from_email(e) returns an active user with sign_in_count 1, email e
\* and username the part of e before its first '@' (all of e when it has no
\* '@', empty when e starts with '@' or is empty); the fallback "unknown" is
\* produced for no input.
C21_FromEmail == [][C21_Step]_uvars

\* from_email("@x@a"): the username is empty, not the fallback.
C21_Witness ==
    /\ user.own = "live"
    /\ user.email = <<"@", "x", "@", "a">>
    /\ user.username = <<>>

----------------------------------------------------------------------------
(* struct Counter, impl Iterator for Counter and the while-let loop of     *)
(* main in src/bin/14_trait.rs.                                            *)

\* Largest count and max explored (main uses count: 0, max: 5), and number
\* of next calls explored after the loop has ended.
MaxMax == 5

MaxLater == 2

cvars == <<counter, iter>>

None == [kind |-> "None"]

Some(v) == [kind |-> "Some", val |-> v]

Counter_next_Inclusive(self) ==
    IF self.count <= self.max
    THEN [self |-> [self EXCEPT !.count = @ + 1], ret |-> Some(self.count)]
    ELSE [self |-> self, ret |-> None]

\* fn next(&mut self) -> Option<u32>: the Counter it leaves and the value it
\* returns.  count < max <= u32::MAX, so count += 1 cannot overflow.
Counter_next(self) ==
    IF self.count < self.max
    THEN [self |-> [self EXCEPT !.count = @ + 1], ret |-> Some(self.count)]
    ELSE [self |-> self, ret |-> None]

\* let mut counter = Counter { count: c, max: m };
CounterInit ==
    /\ handles = <<>> /\ created = <<>> /\ log = <<>> /\ panicked = FALSE
    /\ user = NoUser /\ ret = NoRet /\ calls = <<>>
    /\ flow = [pc |-> "none"] /\ rd = [pc |-> "none"]
    /\ \E c \in 0 .. MaxMax, m \in 0 .. MaxMax :
           /\ counter = [count |-> c, max |-> m]
           /\ iter = [pc |-> "while", c0 |-> c, last |-> NoRet, out |-> <<>>,
                      later |-> 0]

\* while let Some(value) = counter.next(): the call and the match.
WhileLet ==
    /\ iter.pc = "while"
    /\ counter' = Counter_next(counter).self
    /\ iter' = [iter EXCEPT !.last = Counter_next(counter).ret,
                            !.pc = IF Counter_next(counter).ret.kind = "Some"
                                   THEN "body" ELSE "done"]

\* println!("  {}", value);
Body ==
    /\ iter.pc = "body"
    /\ iter' = [iter EXCEPT !.out = Append(@, iter.last.val), !.pc = "while"]
    /\ UNCHANGED counter

\* A further counter.next() after the loop has ended.
LaterNext ==
    /\ iter.pc = "done"
    /\ iter.later < MaxLater
    /\ counter' = Counter_next(counter).self
    /\ iter' = [iter EXCEPT !.last = Counter_next(counter).ret, !.later = @ + 1]

CounterIdle == UNCHANGED <<iovars, uvars, flow, rd>>

CounterNext ==
    \/ WhileLet /\ CounterIdle
    \/ Body /\ CounterIdle
    \/ LaterNext /\ CounterIdle

\* The loop keeps running until its condition fails.
SpecCounter ==
    CounterInit /\ [][CounterNext]_cvars
                /\ WF_cvars((WhileLet \/ Body) /\ CounterIdle)

CounterTypeOK ==
    /\ counter.count \in 0 .. MaxMax
    /\ counter.max \in 0 .. MaxMax
    /\ iter.pc \in {"while", "body", "done"}
    /\ iter.later \in 0 .. MaxLater

\* With c <= m: count stays within c .. m, the values printed are c, c+1,
\* ... in order, never more than m - c of them, and when the loop has ended
\* they are exactly c .. m-1, count is m and the last call returned None.
C22_State ==
    iter.c0 <= counter.max =>
        /\ iter.c0 <= counter.count /\ counter.count <= counter.max
        /\ iter.out = [i \in 1 .. Len(iter.out) |-> iter.c0 + i - 1]
        /\ Len(iter.out) = counter.count - iter.c0 - (IF iter.pc = "body" THEN 1 ELSE 0)
        /\ iter.pc = "body" => iter.last = Some(counter.count - 1)
        /\ iter.pc = "done" =>
               /\ Len(iter.out) = counter.max - iter.c0
               /\ counter.count = counter.max
               /\ iter.last = None

\* Once next has returned None, every later call returns None and leaves
\* count unchanged.
C22_Step ==
    iter.last = None => (iter'.last = None /\ counter'.count = counter.count)

\* C22: a Counter with count = c <= max = m yields c, c+1, ..., m-1 in
\* order and then None; after None every later call returns None and leaves
\* count unchanged; count <= max always; the while-let loop terminates after
\* m - c values.
C22_CounterYields ==
    /\ []C22_State
    /\ [][C22_Step]_cvars
    /\ <>(iter.pc = "done")

\* main: Counter { count: 0, max: 5 } has printed 0..4, the loop has ended
\* and a later call has returned None again.
C22_Witness ==
    /\ iter.pc = "done"
    /\ iter.c0 = 0
    /\ iter.out = <<0, 1, 2, 3, 4>>
    /\ iter.later = 1
    /\ iter.last = None
    /\ counter = [count |-> 5, max |-> 5]

----------------------------------------------------------------------------
(* main of src/bin/04_control_flow.rs: the loop with continue and the      *)
(* labelled nested loops.  flow.pc is the line about to run; flow.out is   *)
(* what these two loops have printed; flow.jumps records every continue    *)
(* and break taken (history only, read by no action).  The lines between   *)
(* the two loops touch neither variable and are passed in one step.        *)

Line(kind, n) == [kind |-> kind, n |-> n]

Skips_Odd(count) == count % 2 = 1

\* if count % 2 == 0
Skips(count) == count % 2 = 0

\* if count >= 10
Breaks(count) == count >= 10

InnerDone_Early(inner_count) == inner_count = 2

\* if inner_count == 3
InnerDone(inner_count) == inner_count = 3

\* if count == 5
OuterDone(count) == count = 5

\* The values of count and inner_count before their let statements are
\* never read; 0 stands for them.
FlowInit ==
    /\ handles = <<>> /\ created = <<>> /\ log = <<>> /\ panicked = FALSE
    /\ user = NoUser /\ ret = NoRet /\ calls = <<>>
    /\ counter = [own |-> "none"] /\ iter = [pc |-> "none"]
    /\ rd = [pc |-> "none"]
    /\ flow = [pc |-> "l92", count |-> 0, inner_count |-> 0, out |-> <<>>,
               jumps |-> <<>>]

\* let mut count = 0;
L92 ==
    /\ flow.pc = "l92"
    /\ flow' = [flow EXCEPT !.count = 0, !.pc = "l94"]

\* loop { count += 1;
L94 ==
    /\ flow.pc = "l94"
    /\ flow' = [flow EXCEPT !.count = @ + 1, !.pc = "l96"]

L96 ==
    /\ flow.pc = "l96"
    /\ flow' = [flow EXCEPT !.pc = IF Skips(flow.count) THEN "l97" ELSE "l101"]

\* println!("Skipping even number: {}", count);
L97 ==
    /\ flow.pc = "l97"
    /\ flow' = [flow EXCEPT !.out = Append(@, Line("skip", flow.count)),
                            !.pc = "l98"]

\* continue;
L98 ==
    /\ flow.pc = "l98"
    /\ flow' = [flow EXCEPT !.jumps = Append(@, "continue"), !.pc = "l94"]

\* println!("Processing odd number: {}", count);
L101 ==
    /\ flow.pc = "l101"
    /\ flow' = [flow EXCEPT !.out = Append(@, Line("process", flow.count)),
                            !.pc = "l103"]

L103 ==
    /\ flow.pc = "l103"
    /\ flow' = [flow EXCEPT !.pc = IF Breaks(flow.count) THEN "l104" ELSE "l94"]

\* break;
L104 ==
    /\ flow.pc = "l104"
    /\ flow' = [flow EXCEPT !.jumps = Append(@, "break"), !.pc = "l108"]

\* Sections 4 to 6 of main.
L108 ==
    /\ flow.pc = "l108"
    /\ flow' = [flow EXCEPT !.pc = "l180"]

\* let mut count = 0;
L180 ==
    /\ flow.pc = "l180"
    /\ flow' = [flow EXCEPT !.count = 0, !.pc = "l182"]

\* 'outer: loop { println!("Outer loop iteration {}", count);
L182 ==
    /\ flow.pc = "l182"
    /\ flow' = [flow EXCEPT !.out = Append(@, Line("outer", flow.count)),
                            !.pc = "l183"]

\* count += 1;
L183 ==
    /\ flow.pc = "l183"
    /\ flow' = [flow EXCEPT !.count = @ + 1, !.pc = "l185"]

\* let mut inner_count = 0;
L185 ==
    /\ flow.pc = "l185"
    /\ flow' = [flow EXCEPT !.inner_count = 0, !.pc = "l187"]

\* 'inner: loop { println!("  Inner loop iteration {}", inner_count);
L187 ==
    /\ flow.pc = "l187"
    /\ flow' = [flow EXCEPT !.out = Append(@, Line("inner", flow.inner_count)),
                            !.pc = "l188"]

\* inner_count += 1;
L188 ==
    /\ flow.pc = "l188"
    /\ flow' = [flow EXCEPT !.inner_count = @ + 1, !.pc = "l190"]

L190 ==
    /\ flow.pc = "l190"
    /\ flow' = [flow EXCEPT
                   !.pc = IF InnerDone(flow.inner_count) THEN "l191" ELSE "l194"]

\* continue 'outer;
L191 ==
    /\ flow.pc = "l191"
    /\ flow' = [flow EXCEPT !.jumps = Append(@, "continue 'outer"),
                            !.pc = "l182"]

L194 ==
    /\ flow.pc = "l194"
    /\ flow' = [flow EXCEPT
                   !.pc = IF OuterDone(flow.count) THEN "l195" ELSE "l187"]

\* break 'outer;
L195 ==
    /\ flow.pc = "l195"
    /\ flow' = [flow EXCEPT !.jumps = Append(@, "break 'outer"), !.pc = "l200"]

FlowIdle == UNCHANGED <<iovars, uvars, counter, iter, rd>>

FlowNext ==
    \/ L92 /\ FlowIdle
    \/ L94 /\ FlowIdle
    \/ L96 /\ FlowIdle
    \/ L97 /\ FlowIdle
    \/ L98 /\ FlowIdle
    \/ L101 /\ FlowIdle
    \/ L103 /\ FlowIdle
    \/ L104 /\ FlowIdle
    \/ L108 /\ FlowIdle
    \/ L180 /\ FlowIdle
    \/ L182 /\ FlowIdle
    \/ L183 /\ FlowIdle
    \/ L185 /\ FlowIdle
    \/ L187 /\ FlowIdle
    \/ L188 /\ FlowIdle
    \/ L190 /\ FlowIdle
    \/ L191 /\ FlowIdle
    \/ L194 /\ FlowIdle
    \/ L195 /\ FlowIdle

\* The single thread of main always takes its next step.
SpecFlow == FlowInit /\ [][FlowNext]_flow /\ WF_flow(FlowNext)

FirstLoop == {"l92", "l94", "l96", "l97", "l98", "l101", "l103", "l104"}

IsSkip(l) == l.kind = "skip"

IsProcess(l) == l.kind = "process"

IsOuter(l) == l.kind = "outer"

IsNested(l) == l.kind \in {"outer", "inner"}

IsPlain(j) == j \in {"continue", "break"}

IsLabelled(j) == j \in {"continue 'outer", "break 'outer"}

Numbers(lines) == [i \in 1 .. Len(lines) |-> lines[i].n]

Skipped == Numbers(SelectSeq(flow.out, IsSkip))

Processed == Numbers(SelectSeq(flow.out, IsProcess))

\* The loop processes odd values and skips even ones in order, reaches the
\* break test only on odd counts, and has left with count = 11 having
\* processed 1, 3, 5, 7, 9, 11 and skipped 2, 4, 6, 8, 10.
C23_State ==
    /\ IsPrefix(Processed, <<1, 3, 5, 7, 9, 11>>)
    /\ IsPrefix(Skipped, <<2, 4, 6, 8, 10>>)
    /\ flow.pc \in {"l101", "l103", "l104"} => flow.count % 2 = 1
    /\ flow.pc = "l97" => flow.count % 2 = 0
    /\ flow.pc \in {"l104", "l108"} => flow.count = 11
    /\ flow.pc \notin FirstLoop =>
           /\ Processed = <<1, 3, 5, 7, 9, 11>>
           /\ Skipped = <<2, 4, 6, 8, 10>>
           /\ SelectSeq(flow.jumps, IsPlain) =
                  <<"continue", "continue", "continue", "continue",
                    "continue", "break">>

\* C23: the loop with continue terminates, processing exactly 1, 3, 5, 7,
\* 9, 11 and skipping 2, 4, 6, 8, 10, and exits with count = 11 because the
\* break test is reached only on odd counts.
C23_ContinueLoop ==
    /\ []C23_State
    /\ <>(flow.pc = "l108")

\* The loop has just been left through break.
C23_Witness ==
    /\ flow.pc = "l108"
    /\ flow.count = 11
    /\ Processed = <<1, 3, 5, 7, 9, 11>>
    /\ Skipped = <<2, 4, 6, 8, 10>>

\* What the nested loops print: four rounds of an outer line and three
\* inner lines, then a fifth outer line and one inner line.
NestedOutput ==
    <<Line("outer", 0), Line("inner", 0), Line("inner", 1), Line("inner", 2),
      Line("outer", 1), Line("inner", 0), Line("inner", 1), Line("inner", 2),
      Line("outer", 2), Line("inner", 0), Line("inner", 1), Line("inner", 2),
      Line("outer", 3), Line("inner", 0), Line("inner", 1), Line("inner", 2),
      Line("outer", 4), Line("inner", 0)>>

\* continue 'outer is taken after the third inner iteration of rounds one
\* to four, break 'outer in the first inner iteration of round five, and
\* when both loops have been left the output and the jumps are as stated.
C24_State ==
    /\ IsPrefix(SelectSeq(flow.out, IsNested), NestedOutput)
    /\ flow.pc = "l191" => flow.inner_count = 3 /\ flow.count \in 1 .. 4
    /\ flow.pc = "l195" => flow.inner_count = 1 /\ flow.count = 5
    /\ flow.pc = "l200" =>
           /\ flow.count = 5
           /\ SelectSeq(flow.out, IsNested) = NestedOutput
           /\ Numbers(SelectSeq(flow.out, IsOuter)) = <<0, 1, 2, 3, 4>>
           /\ SelectSeq(flow.jumps, IsLabelled) =
                  <<"continue 'outer", "continue 'outer", "continue 'outer",
                    "continue 'outer", "break 'outer">>

\* C24: the labelled nested loops terminate; the outer body is entered 5
\* times printing 0 to 4, each of the first four rounds runs the inner loop
\* 3 times and leaves through continue 'outer, and the fifth leaves both
\* loops through break 'outer in the first inner iteration with count = 5.
C24_LabelledLoops ==
    /\ []C24_State
    /\ <>(flow.pc = "l200")

\* Both loops have been left through break 'outer.
C24_Witness ==
    /\ flow.pc = "l200"
    /\ flow.count = 5
    /\ flow.inner_count = 1
    /\ Len(SelectSeq(flow.out, IsOuter)) = 5

----------------------------------------------------------------------------
(* enum MyError, its Error and From impls, read_number_from_file and the   *)
(* match of demonstrate_error_chain in src/bin/10_error_handling.rs.       *)
(* A file's text is a sequence of characters.                              *)

\* Longest file content enumerated in full.
MaxContentLen == 3

rvars == <<rd>>

ContentChars == {" ", "-", "+", "0", "7", "a"}

Whitespace == {" ", "\n", "\t"}

Digits == {"0", "1", "2", "3", "4", "5", "6", "7", "8", "9"}

\* char::to_digit(10) on a decimal digit.
Digit(c) ==
    CASE c = "0" -> 0 [] c = "1" -> 1 [] c = "2" -> 2 [] c = "3" -> 3
      [] c = "4" -> 4 [] c = "5" -> 5 [] c = "6" -> 6 [] c = "7" -> 7
      [] c = "8" -> 8 [] c = "9" -> 9

\* i32::MAX and i32::MIN, the range of the function's Ok value.
I32Max == 2147483647

I32Min == (-I32Max) - 1

\* Contents around the i32 limits and the one main writes.
LongContents ==
    { <<"4", "2">>,
      <<" ", "4", "2", "\n">>,
      <<"\t", "-", "1", "0", " ", "\n">>,
      <<"4", " ", "2">>,
      <<"2", "1", "4", "7", "4", "8", "3", "6", "4", "7">>,
      <<"2", "1", "4", "7", "4", "8", "3", "6", "4", "8">>,
      <<"+", "2", "1", "4", "7", "4", "8", "3", "6", "5", "0">>,
      <<"-", "2", "1", "4", "7", "4", "8", "3", "6", "4", "8">>,
      <<"-", "2", "1", "4", "7", "4", "8", "3", "6", "4", "9">>,
      <<"-", "2", "1", "4", "7", "4", "8", "3", "6", "5", "0">>,
      <<"0", "0", "2", "1", "4", "7", "4", "8", "3", "6", "4", "7">>,
      <<"9", "9", "9", "9", "9", "9", "9", "9", "9", "9", "9">>,
      <<"9", "9", "9", "9", "9", "9", "9", "9", "9", "9", "9", "a">> }

Contents ==
    UNION {[1 .. n -> ContentChars] : n \in 0 .. MaxContentLen}
        \cup LongContents

\* What File::open and read_to_string meet: no such file, no permission, a
\* directory, bytes that are not UTF-8, or a text.
FileKinds == {"missing", "denied", "directory", "binary", "text"}

Files ==
    {[kind |-> k, content |-> <<>>] : k \in FileKinds \ {"text"}}
        \cup {[kind |-> "text", content |-> c] : c \in Contents}

Ok(v) == [kind |-> "Ok", val |-> v]

Err(e) == [kind |-> "Err", err |-> e]

\* File::open(filename)
File_open(file) ==
    CASE file.kind = "missing" -> Err("NotFound")
      [] file.kind = "denied" -> Err("PermissionDenied")
      [] OTHER -> Ok(file)

\* f.read_to_string(&mut s): the text read, or the io::Error.
read_to_string(file) ==
    CASE file.kind = "directory" -> Err("IsADirectory")
      [] file.kind = "binary" -> Err("InvalidData")
      [] OTHER -> Ok(file.content)

RECURSIVE TrimStart(_)
TrimStart(s) ==
    IF s # <<>> /\ Head(s) \in Whitespace THEN TrimStart(Tail(s)) ELSE s

RECURSIVE TrimEnd(_)
TrimEnd(s) ==
    IF s # <<>> /\ s[Len(s)] \in Whitespace
    THEN TrimEnd(SubSeq(s, 1, Len(s) - 1))
    ELSE s

\* str::trim
Trim(s) == TrimEnd(TrimStart(s))

\* The digit loop of i32::from_str: each character must be a digit, then
\* the checked multiply by 10 and the checked add (subtract when negative).
RECURSIVE Accumulate(_, _, _)
Accumulate(t, acc, neg) ==
    IF t = <<>> THEN Ok(acc)
    ELSE IF Head(t) \notin Digits THEN Err("InvalidDigit")
    ELSE IF neg
    THEN IF acc < -(I32Max \div 10) THEN Err("NegOverflow")
         ELSE IF acc * 10 < I32Min + Digit(Head(t)) THEN Err("NegOverflow")
         ELSE Accumulate(Tail(t), acc * 10 - Digit(Head(t)), neg)
    ELSE IF acc > I32Max \div 10 THEN Err("PosOverflow")
         ELSE IF acc * 10 > I32Max - Digit(Head(t)) THEN Err("PosOverflow")
         ELSE Accumulate(Tail(t), acc * 10 + Digit(Head(t)), neg)

\* str::parse::<i32>
parse(t) ==
    IF t = <<>> THEN Err("Empty")
    ELSE IF Len(t) = 1 /\ Head(t) \in {"+", "-"} THEN Err("InvalidDigit")
    ELSE IF Head(t) = "+" THEN Accumulate(Tail(t), 0, FALSE)
    ELSE IF Head(t) = "-" THEN Accumulate(Tail(t), 0, TRUE)
    ELSE Accumulate(t, 0, FALSE)

IoError(e) == [kind |-> "IoError", inner |-> e]

ParseError(e) == [kind |-> "ParseError", inner |-> e]

CustomError(m) == [kind |-> "CustomError", inner |-> m]

\* impl From<std::io::Error> for MyError
From_io(error) == IoError(error)

From_parse_Custom(error) == CustomError(error)

\* impl From<std::num::ParseIntError> for MyError
From_parse(error) == ParseError(error)

\* fn source(&self)
source(self) ==
    CASE self.kind = "IoError" -> Some(self.inner)
      [] self.kind = "ParseError" -> Some(self.inner)
      [] self.kind = "CustomError" -> None

IoErrors == {"NotFound", "PermissionDenied", "IsADirectory", "InvalidData"}

ParseIntErrors == {"Empty", "InvalidDigit", "PosOverflow", "NegOverflow"}

MyErrors ==
    {IoError(e) : e \in IoErrors} \cup {ParseError(e) : e \in ParseIntErrors}
        \cup {CustomError("Something went wrong")}

\* let result = read_number_from_file(filename), for any file.
ReadInit ==
    /\ handles = <<>> /\ created = <<>> /\ log = <<>> /\ panicked = FALSE
    /\ user = NoUser /\ ret = NoRet /\ calls = <<>>
    /\ counter = [own |-> "none"] /\ iter = [pc |-> "none"]
    /\ flow = [pc |-> "none"]
    /\ \E file \in Files :
           rd = [pc |-> "open", file |-> file, s |-> <<>>, result |-> NoRet,
                 printed |-> <<>>]

\* let mut f = File::open(filename)?;
Open ==
    /\ rd.pc = "open"
    /\ rd' = IF File_open(rd.file).kind = "Err"
             THEN [rd EXCEPT !.result = Err(From_io(File_open(rd.file).err)),
                             !.pc = "match"]
             ELSE [rd EXCEPT !.pc = "read"]

\* let mut s = String::new(); f.read_to_string(&mut s)?;
Read ==
    /\ rd.pc = "read"
    /\ rd' = IF read_to_string(rd.file).kind = "Err"
             THEN [rd EXCEPT
                      !.result = Err(From_io(read_to_string(rd.file).err)),
                      !.pc = "match"]
             ELSE [rd EXCEPT !.s = read_to_string(rd.file).val, !.pc = "parse"]

\* let number = s.trim().parse()?; Ok(number)
Parse ==
    /\ rd.pc = "parse"
    /\ rd' = IF parse(Trim(rd.s)).kind = "Err"
             THEN [rd EXCEPT
                      !.result = Err(From_parse(parse(Trim(rd.s)).err)),
                      !.pc = "match"]
             ELSE [rd EXCEPT !.result = Ok(parse(Trim(rd.s)).val),
                             !.pc = "match"]

\* match result { Ok(_) => (), Err(error) => { println!("Error: ..");
\* if let Some(source) = error.source() { println!("Source error: ..") } } }
Report ==
    /\ rd.pc = "match"
    /\ rd' = [rd EXCEPT
                 !.printed =
                     IF rd.result.kind = "Ok" THEN <<>>
                     ELSE IF source(rd.result.err).kind = "Some"
                     THEN <<"Error", "Source error">>
                     ELSE <<"Error">>,
                 !.pc = "end"]

ReadIdle == UNCHANGED <<iovars, uvars, counter, iter, flow>>

ReadNext ==
    \/ Open /\ ReadIdle
    \/ Read /\ ReadIdle
    \/ Parse /\ ReadIdle
    \/ Report /\ ReadIdle

SpecRead == ReadInit /\ [][ReadNext]_rvars

\* An optional sign followed by one or more decimal digits.
Unsigned(t) == IF t # <<>> /\ Head(t) \in {"+", "-"} THEN Tail(t) ELSE t

WellFormed(t) ==
    /\ Unsigned(t) # <<>>
    /\ \A i \in DOMAIN Unsigned(t) : Unsigned(t)[i] \in Digits

RECURSIVE StripZeros(_)
StripZeros(d) ==
    IF Len(d) > 1 /\ Head(d) = "0" THEN StripZeros(Tail(d)) ELSE d

RECURSIVE LeqDigits(_, _)
LeqDigits(a, b) ==
    \/ a = <<>>
    \/ Digit(Head(a)) < Digit(Head(b))
    \/ Head(a) = Head(b) /\ LeqDigits(Tail(a), Tail(b))

\* The decimal number written by t lies in the range of i32.
InRange(t) ==
    LET d == StripZeros(Unsigned(t))
        limit == IF Head(t) = "-"
                 THEN <<"2", "1", "4", "7", "4", "8", "3", "6", "4", "8">>
                 ELSE <<"2", "1", "4", "7", "4", "8", "3", "6", "4", "7">>
    IN  Len(d) < Len(limit) \/ (Len(d) = Len(limit) /\ LeqDigits(d, limit))

RECURSIVE ToDigits(_)
ToDigits(n) ==
    IF n < 10 THEN <<CHOOSE c \in Digits : Digit(c) = n>>
    ELSE ToDigits(n \div 10) \o <<CHOOSE c \in Digits : Digit(c) = n % 10>>

\* n is the number that the well-formed text t writes.
Writes(t, n) ==
    IF n = I32Min
    THEN StripZeros(Unsigned(t)) =
             <<"2", "1", "4", "7", "4", "8", "3", "6", "4", "8">>
         /\ Head(t) = "-"
    ELSE /\ StripZeros(Unsigned(t)) = ToDigits(IF n < 0 THEN -n ELSE n)
         /\ n < 0 => Head(t) = "-"
         /\ n > 0 => Head(t) # "-"

Returned == rd.pc \in {"match", "end"}

\* Once the function has returned: Ok(n) exactly when the file opened and
\* was read and its trimmed text writes an integer n of i32; IoError
\* exactly when opening or reading failed; ParseError exactly when the text
\* was read and does not parse; never CustomError, never a panic; and the
\* caller prints the source line for every error the function returns.
C25_State ==
    /\ ~ panicked
    /\ Returned =>
           /\ rd.result.kind \in {"Ok", "Err"}
           /\ rd.result.kind = "Ok" <=>
                  /\ rd.file.kind = "text"
                  /\ WellFormed(Trim(rd.file.content))
                  /\ InRange(Trim(rd.file.content))
           /\ rd.result.kind = "Ok" =>
                  /\ rd.s = rd.file.content
                  /\ rd.result.val \in I32Min .. I32Max
                  /\ Writes(Trim(rd.file.content), rd.result.val)
           /\ rd.result.kind = "Err" =>
                  /\ rd.result.err.kind \in {"IoError", "ParseError"}
                  /\ rd.result.err.kind = "IoError" <=> rd.file.kind # "text"
                  /\ rd.result.err.kind = "IoError" =>
                         rd.result.err.inner \in IoErrors
                  /\ rd.result.err.kind = "ParseError" =>
                         /\ rd.s = rd.file.content
                         /\ rd.result.err.inner \in ParseIntErrors
                  /\ source(rd.result.err) = Some(rd.result.err.inner)
    /\ rd.pc = "end" =>
           rd.printed = IF rd.result.kind = "Ok" THEN <<>>
                        ELSE <<"Error", "Source error">>

\* source() is present for IoError and ParseError, absent for CustomError.
C25_Source ==
    \A e \in MyErrors : (source(e) # None) <=> (e.kind # "CustomError")

\* C25: read_number_from_file returns Ok(n) only when the file was opened,
\* read and its trimmed content parsed as an integer; an open or read
\* failure is returned as IoError and a parse failure as ParseError, never
\* CustomError and never a panic; source() is present for IoError and
\* ParseError and absent for CustomError.
C25_ReadNumber == C25_State /\ C25_Source

\* A text one above i32::MAX was read and came back as ParseError, and the
\* caller printed its source.
C25_Witness ==
    /\ rd.pc = "end"
    /\ rd.file.kind = "text"
    /\ rd.s = <<"2", "1", "4", "7", "4", "8", "3", "6", "4", "8">>
    /\ rd.result = Err(ParseError("PosOverflow"))
    /\ rd.printed = <<"Error", "Source error">>

====
